---- MODULE Spec2Model ----
(***************************************************************************)
(* A model of tshare.py: (2,3) threshold secret sharing.                   *)
(*                                                                         *)
(* split_bytes and join_bytes are modelled statement by statement over a   *)
(* heap of bytearray objects.  Local names of the functions hold           *)
(* references (object names), so that rebinding a name and writing into    *)
(* an object are different things, as they are in Python.                  *)
(*                                                                         *)
(* Two specifications share the actions of join_bytes:                     *)
(*   Spec      a secret is split, then the caller joins two of its         *)
(*             objects (any of the three shares or the secret itself);     *)
(*   SpecJoin  the caller joins two arbitrary byte sequences x and y,      *)
(*             then joins them again, swapped or with one payload          *)
(*             byte replaced.                                              *)
(***************************************************************************)
EXTENDS Integers, Sequences, FiniteSets, TLC

\* ------------------------------------------------------------------------
\* Bounds and sample domains
\* ------------------------------------------------------------------------

\* longest secret (Spec) and longest payload (SpecJoin)
MaxLen == 2

\* the values of one element of a bytearray
Byte == 0..255

\* secret bytes used in secrets longer than one byte
SecretBytes == {0, 90, 165, 255}

\* the bytes os.urandom is taken to return
MaskBytes == {0, 60, 195, 255}

\* first bytes of the arbitrary inputs of join_bytes
TagBytes == {0, 1, 2, 3, 255}

\* payload bytes of the arbitrary inputs of join_bytes
PayloadBytes == {57, 156, 171}

BoundedSeq(S, n) == UNION {[1..k -> S] : k \in 0..n}

\* secrets: every one-byte secret, and the sampled ones up to MaxLen
Secrets == BoundedSeq(SecretBytes, MaxLen) \cup {<<x>> : x \in Byte}

\* arbitrary inputs of join_bytes: empty, or a first byte and a payload
ShareInputs ==
    {<<>>} \cup {<<t>> \o p : t \in TagBytes, p \in BoundedSeq(PayloadBytes, MaxLen)}

\* ------------------------------------------------------------------------
\* Python's integer operators on non-negative integers
\* ------------------------------------------------------------------------

RECURSIVE BitXor(_, _)
BitXor(a, b) ==
    IF a = 0 THEN b
    ELSE IF b = 0 THEN a
    ELSE (((a % 2) + (b % 2)) % 2) + 2 * BitXor(a \div 2, b \div 2)

RECURSIVE BitAnd(_, _)
BitAnd(a, b) ==
    IF a = 0 \/ b = 0 THEN 0
    ELSE ((a % 2) * (b % 2)) + 2 * BitAnd(a \div 2, b \div 2)

RECURSIVE BitOr(_, _)
BitOr(a, b) ==
    IF a = 0 THEN b
    ELSE IF b = 0 THEN a
    ELSE (IF a % 2 = 1 \/ b % 2 = 1 THEN 1 ELSE 0) + 2 * BitOr(a \div 2, b \div 2)

Shl(a, k) == a * (2 ^ k)

Shr(a, k) == a \div (2 ^ k)

\* bytearray(n): n zero bytes
ByteArray(n) == [k \in 1..n |-> 0]

\* ------------------------------------------------------------------------
\* The per-byte transforms
\* ------------------------------------------------------------------------

Share0Byte_Or(x, y) == BitOr(Shr(BitAnd(x, 240), 4), y)

\* s0[j] = ((x & 0xf0) >> 4) ^ y
Share0Byte(x, y) == BitXor(Shr(BitAnd(x, 240), 4), y)

Share1Byte_NoShift(x, y) == BitXor(BitAnd(x, 15), y)

\* s1[j] = ((x & 0x0f) << 4) ^ y
Share1Byte(x, y) == BitXor(Shl(BitAnd(x, 15), 4), y)

\* s2[j] = x ^ y
Share2Byte(x, y) == BitXor(x, y)

\* the payload byte of the share with tag t
ShareByte(t, x, y) ==
    CASE t = 0 -> Share0Byte(x, y)
      [] t = 1 -> Share1Byte(x, y)
      [] t = 2 -> Share2Byte(x, y)

\* m[i] = ((c << 4) & 0xf0) | ((c >> 4) & 0x0f)
Join01Byte(c) == BitOr(BitAnd(Shl(c, 4), 240), BitAnd(Shr(c, 4), 15))

Join02Byte_Or(c) == BitOr(Shr(BitAnd(c, 240), 4), c)

\* m[i] = ((c & 0xf0) >> 4) ^ c
Join02Byte(c) == BitXor(Shr(BitAnd(c, 240), 4), c)

\* m[i] = ((c & 0x0f) << 4) ^ c
Join12Byte(c) == BitXor(Shl(BitAnd(c, 15), 4), c)

\* the helper that join_bytes dispatched to
JoinByte(k, c) ==
    CASE k = "01" -> Join01Byte(c)
      [] k = "02" -> Join02Byte(c)
      [] k = "12" -> Join12Byte(c)

\* ------------------------------------------------------------------------
\* State
\* ------------------------------------------------------------------------

VARIABLES
    heap,    \* object name -> its bytes
    pc,      \* the statement about to run
    args,    \* the objects the caller passed to the running call
    la,      \* join_bytes' local name a (a reference)
    lb,      \* join_bytes' local name b (a reference)
    i,       \* loop index of split_bytes and of the join helpers
    kind,    \* which helper join_bytes dispatched to
    err,     \* message of the ValueError raised, or "none"
    ret,     \* objects returned by the last call that returned
    saved,   \* the heap when the running call was entered
    call,    \* which call of the caller this is
    first,   \* outcome of the caller's first join_bytes call
    tamper,  \* payload index the caller replaced before the second call
    reads,   \* payload bytes read by the running join_bytes call
    writes   \* output bytes written by the running join_bytes call

vars == <<heap, pc, args, la, lb, i, kind, err, ret, saved, call, first,
          tamper, reads, writes>>

Objs == {"m", "r", "s0", "s1", "s2", "x", "y", "out"}

EmptyHeap == [o \in Objs |-> <<>>]

NoOutcome == [err |-> "pending", val |-> <<>>]

\* what the caller observes from the running join_bytes call
Outcome ==
    [err |-> err, val |-> IF err = "none" /\ ret # <<>> THEN heap[ret[1]] ELSE <<>>]

Init ==
    /\ \E m \in Secrets : heap = [EmptyHeap EXCEPT !["m"] = m]
    /\ pc = "split_23"
    /\ args = <<"m">>
    /\ la = "m"
    /\ lb = "m"
    /\ i = 0
    /\ kind = "none"
    /\ err = "none"
    /\ ret = <<>>
    /\ saved = heap
    /\ call = "split"
    /\ first = NoOutcome
    /\ tamper = 0
    /\ reads = 0
    /\ writes = 0

InitJoin ==
    /\ \E x \in ShareInputs, y \in ShareInputs :
          heap = [EmptyHeap EXCEPT !["x"] = x, !["y"] = y]
    /\ pc = "caller"
    /\ args = <<"x", "y">>
    /\ la = "x"
    /\ lb = "y"
    /\ i = 0
    /\ kind = "none"
    /\ err = "none"
    /\ ret = <<>>
    /\ saved = heap
    /\ call = "none"
    /\ first = NoOutcome
    /\ tamper = 0
    /\ reads = 0
    /\ writes = 0

\* ------------------------------------------------------------------------
\* split_bytes
\* ------------------------------------------------------------------------

SplitAlloc_Tag ==
    /\ pc = "split_23"
    /\ \E r \in [1..Len(heap["m"]) -> MaskBytes] :
          heap' = [heap EXCEPT !["r"] = r,
                               !["s0"] = <<0>> \o ByteArray(Len(heap["m"])),
                               !["s1"] = <<1>> \o ByteArray(Len(heap["m"])),
                               !["s2"] = <<1>> \o ByteArray(Len(heap["m"]))]
    /\ i' = 0
    /\ pc' = "split_31"
    /\ UNCHANGED <<args, la, lb, kind, err, ret, saved, call, first, tamper,
                   reads, writes>>

\* n = len(m); r = urandom(n); s0, s1, s2 = bytearray(n + 1) with tags 0, 1, 2
SplitAlloc ==
    /\ pc = "split_23"
    /\ \E r \in [1..Len(heap["m"]) -> MaskBytes] :
          heap' = [heap EXCEPT !["r"] = r,
                               !["s0"] = <<0>> \o ByteArray(Len(heap["m"])),
                               !["s1"] = <<1>> \o ByteArray(Len(heap["m"])),
                               !["s2"] = <<2>> \o ByteArray(Len(heap["m"]))]
    /\ i' = 0
    /\ pc' = "split_31"
    /\ UNCHANGED <<args, la, lb, kind, err, ret, saved, call, first, tamper,
                   reads, writes>>

\* one iteration of: for i in range(n)
SplitLoop ==
    /\ pc = "split_31"
    /\ i < Len(heap["m"])
    /\ LET x == heap["m"][i + 1]
           y == heap["r"][i + 1]
           j == i + 1
       IN  heap' = [heap EXCEPT !["s0"][j + 1] = Share0Byte(x, y),
                                !["s1"][j + 1] = Share1Byte(x, y),
                                !["s2"][j + 1] = Share2Byte(x, y)]
    /\ i' = i + 1
    /\ UNCHANGED <<pc, args, la, lb, kind, err, ret, saved, call, first,
                   tamper, reads, writes>>

\* return [s0, s1, s2]
SplitReturn ==
    /\ pc = "split_31"
    /\ i = Len(heap["m"])
    /\ ret' = <<"s0", "s1", "s2">>
    /\ pc' = "caller"
    /\ UNCHANGED <<heap, args, la, lb, i, kind, err, saved, call, first,
                   tamper, reads, writes>>

\* ------------------------------------------------------------------------
\* join_bytes
\* ------------------------------------------------------------------------

\* entry of join_bytes(p, q): the parameters are bound to the arguments
Enter(p, q) ==
    /\ args' = <<p, q>>
    /\ la' = p
    /\ lb' = q
    /\ i' = 0
    /\ kind' = "none"
    /\ err' = "none"
    /\ ret' = <<>>
    /\ saved' = heap'
    /\ reads' = 0
    /\ writes' = 0
    /\ pc' = "join_44"

JoinCheckSize_EmptyFirst ==
    /\ pc = "join_44"
    /\ IF Len(heap[la]) # Len(heap[lb]) /\ Len(heap[la]) >= 1
       THEN err' = "size mismatch" /\ pc' = "raised"
       ELSE err' = err /\ pc' = "join_46"
    /\ UNCHANGED <<heap, args, la, lb, i, kind, ret, saved, call, first,
                   tamper, reads, writes>>

JoinCheckSize_Greater ==
    /\ pc = "join_44"
    /\ IF Len(heap[la]) > Len(heap[lb])
       THEN err' = "size mismatch" /\ pc' = "raised"
       ELSE err' = err /\ pc' = "join_46"
    /\ UNCHANGED <<heap, args, la, lb, i, kind, ret, saved, call, first,
                   tamper, reads, writes>>

\* if len(a) != len(b): raise ValueError('size mismatch')
JoinCheckSize ==
    /\ pc = "join_44"
    /\ IF Len(heap[la]) # Len(heap[lb])
       THEN err' = "size mismatch" /\ pc' = "raised"
       ELSE err' = err /\ pc' = "join_46"
    /\ UNCHANGED <<heap, args, la, lb, i, kind, ret, saved, call, first,
                   tamper, reads, writes>>

\* if len(a) < 1: raise ValueError('invalid shares')
JoinCheckEmpty ==
    /\ pc = "join_46"
    /\ IF Len(heap[la]) < 1
       THEN err' = "invalid shares" /\ pc' = "raised"
       ELSE err' = err /\ pc' = "join_48"
    /\ UNCHANGED <<heap, args, la, lb, i, kind, ret, saved, call, first,
                   tamper, reads, writes>>

JoinSwap_Never ==
    /\ pc = "join_48"
    /\ pc' = "join_50"
    /\ UNCHANGED <<heap, args, la, lb, i, kind, err, ret, saved, call, first,
                   tamper, reads, writes>>

JoinSwap_InPlace ==
    /\ pc = "join_48"
    /\ IF heap[la][1] > heap[lb][1]
       THEN heap' = [heap EXCEPT ![la] = heap[lb], ![lb] = heap[la]]
       ELSE heap' = heap
    /\ pc' = "join_50"
    /\ UNCHANGED <<args, la, lb, i, kind, err, ret, saved, call, first,
                   tamper, reads, writes>>

\* if a[0] > b[0]: a, b = b, a
JoinSwap ==
    /\ pc = "join_48"
    /\ IF heap[la][1] > heap[lb][1]
       THEN la' = lb /\ lb' = la
       ELSE la' = la /\ lb' = lb
    /\ pc' = "join_50"
    /\ UNCHANGED <<heap, args, i, kind, err, ret, saved, call, first, tamper,
                   reads, writes>>

\* m = bytearray(len(a) - 1)
JoinAlloc ==
    /\ pc = "join_50"
    /\ heap' = [heap EXCEPT !["out"] = ByteArray(Len(heap[la]) - 1)]
    /\ pc' = "join_51"
    /\ UNCHANGED <<args, la, lb, i, kind, err, ret, saved, call, first,
                   tamper, reads, writes>>

JoinDispatch_Range ==
    /\ pc = "join_51"
    /\ LET ta == heap[la][1]
           tb == heap[lb][1]
       IN  IF ta = 0 /\ tb = 1
           THEN kind' = "01" /\ err' = err /\ pc' = "join_loop"
           ELSE IF ta = 0 /\ tb = 2
           THEN kind' = "02" /\ err' = err /\ pc' = "join_loop"
           ELSE IF ta = 1 /\ tb >= 2
           THEN kind' = "12" /\ err' = err /\ pc' = "join_loop"
           ELSE kind' = kind /\ err' = "invalid shares" /\ pc' = "raised"
    /\ i' = 0
    /\ UNCHANGED <<heap, args, la, lb, ret, saved, call, first, tamper,
                   reads, writes>>

JoinDispatch_Else ==
    /\ pc = "join_51"
    /\ LET ta == heap[la][1]
           tb == heap[lb][1]
       IN  kind' = IF ta = 0 /\ tb = 1 THEN "01"
                   ELSE IF ta = 0 /\ tb = 2 THEN "02"
                   ELSE "12"
    /\ i' = 0
    /\ pc' = "join_loop"
    /\ UNCHANGED <<heap, args, la, lb, err, ret, saved, call, first, tamper,
                   reads, writes>>

\* the if / elif / else chain on (a[0], b[0]); the call enters the helper
JoinDispatch ==
    /\ pc = "join_51"
    /\ LET ta == heap[la][1]
           tb == heap[lb][1]
       IN  IF ta = 0 /\ tb = 1
           THEN kind' = "01" /\ err' = err /\ pc' = "join_loop"
           ELSE IF ta = 0 /\ tb = 2
           THEN kind' = "02" /\ err' = err /\ pc' = "join_loop"
           ELSE IF ta = 1 /\ tb = 2
           THEN kind' = "12" /\ err' = err /\ pc' = "join_loop"
           ELSE kind' = kind /\ err' = "invalid shares" /\ pc' = "raised"
    /\ i' = 0
    /\ UNCHANGED <<heap, args, la, lb, ret, saved, call, first, tamper,
                   reads, writes>>

\* one iteration of the helper's loop: for i in range(len(m))
JoinLoop ==
    /\ pc = "join_loop"
    /\ i < Len(heap["out"])
    /\ LET c == BitXor(heap[la][i + 2], heap[lb][i + 2])
       IN  heap' = [heap EXCEPT !["out"][i + 1] = JoinByte(kind, c)]
    /\ i' = i + 1
    /\ reads' = reads + 2
    /\ writes' = writes + 1
    /\ UNCHANGED <<pc, args, la, lb, kind, err, ret, saved, call, first,
                   tamper>>

\* the helper's loop ends; return m
JoinReturn ==
    /\ pc = "join_loop"
    /\ i = Len(heap["out"])
    /\ ret' = <<"out">>
    /\ pc' = "returned"
    /\ UNCHANGED <<heap, args, la, lb, i, kind, err, saved, call, first,
                   tamper, reads, writes>>

\* ------------------------------------------------------------------------
\* Callers
\* ------------------------------------------------------------------------

\* the objects the caller of split_bytes can pass on to join_bytes
CallerObjs == {"m", "s0", "s1", "s2"}

ShareObjs == {"s0", "s1", "s2"}

\* after split_bytes returned: join_bytes(p, q) on two of the caller's objects
CallJoin ==
    /\ pc = "caller"
    /\ call = "split"
    /\ heap' = heap
    /\ \E p \in CallerObjs, q \in CallerObjs : Enter(p, q)
    /\ call' = "first"
    /\ UNCHANGED <<first, tamper>>

\* join_bytes(x, y)
CallFirst ==
    /\ pc = "caller"
    /\ call = "none"
    /\ heap' = heap
    /\ Enter("x", "y")
    /\ call' = "first"
    /\ UNCHANGED <<first, tamper>>

Finished == pc \in {"returned", "raised"}

\* then join_bytes(y, x)
CallSwapped ==
    /\ Finished
    /\ call = "first"
    /\ first' = Outcome
    /\ heap' = heap
    /\ Enter("y", "x")
    /\ call' = "swapped"
    /\ UNCHANGED tamper

\* or: the first call returned; one payload byte of x or of y is replaced
\* by a different value and join_bytes(x, y) is called again
CallTampered ==
    /\ pc = "returned"
    /\ call = "first"
    /\ first' = Outcome
    /\ \E o \in {"x", "y"} :
       \E k \in 1..(Len(heap[o]) - 1) :
       \E v \in PayloadBytes \ {heap[o][k + 1]} :
          /\ heap' = [heap EXCEPT ![o][k + 1] = v]
          /\ tamper' = k
    /\ Enter("x", "y")
    /\ call' = "tampered"

Next ==
    \/ SplitAlloc
    \/ SplitLoop
    \/ SplitReturn
    \/ CallJoin
    \/ JoinCheckSize
    \/ JoinCheckEmpty
    \/ JoinSwap
    \/ JoinAlloc
    \/ JoinDispatch
    \/ JoinLoop
    \/ JoinReturn

NextJoin ==
    \/ CallFirst
    \/ CallSwapped
    \/ CallTampered
    \/ JoinCheckSize
    \/ JoinCheckEmpty
    \/ JoinSwap
    \/ JoinAlloc
    \/ JoinDispatch
    \/ JoinLoop
    \/ JoinReturn

Spec == Init /\ [][Next]_vars

SpecJoin == InitJoin /\ [][NextJoin]_vars

\* ------------------------------------------------------------------------
\* Properties
\* ------------------------------------------------------------------------

\* the caller's two arguments as they were when the call was entered
ArgA == saved[args[1]]

ArgB == saved[args[2]]

InJoin == call \in {"first", "swapped", "tampered"}

ValidTagPair(ta, tb) ==
    {ta, tb} \in {{0, 1}, {0, 2}, {1, 2}}

\* C1: joining any two distinct shares of one split returns the secret
\* that was split, byte for byte (Spec).
C1_RoundTrip ==
    (/\ InJoin
     /\ Finished
     /\ args[1] \in ShareObjs
     /\ args[2] \in ShareObjs
     /\ args[1] # args[2])
    => (/\ pc = "returned"
        /\ err = "none"
        /\ ret = <<"out">>
        /\ heap["out"] = heap["m"])

C1_Witness ==
    /\ pc = "returned"
    /\ args = <<"s1", "s2">>
    /\ heap["m"] = <<90, 165>>
    /\ heap["r"] = <<60, 195>>
    /\ heap["out"] = <<90, 165>>

\* C2: for the secret byte x that split_bytes is about to mask and each
\* tag t, the payload byte of share t takes every value of 0..255 as the
\* mask byte ranges over 0..255 (hence each exactly once, and the number of
\* masks giving a payload value is the same for every secret byte) (Spec).
C2_PayloadUniform ==
    (pc = "split_31" /\ i < Len(heap["m"]))
    => \A t \in 0..2 :
          {ShareByte(t, heap["m"][i + 1], y) : y \in Byte} = Byte

C2_Witness ==
    /\ pc = "split_31"
    /\ i = 0
    /\ heap["m"] = <<90>>
    /\ heap["r"] = <<60>>
    /\ Cardinality({Share0Byte(90, y) : y \in Byte}) = 256

\* C3 as stated: join_bytes fails with 'invalid shares' whenever its first
\* argument is empty, whatever the second one is (SpecJoin).
C3_Original ==
    (InJoin /\ Finished /\ Len(ArgA) < 1)
    => (pc = "raised" /\ err = "invalid shares")

\* C3 as amended: with an empty first argument join_bytes fails with
\* 'invalid shares' when the second argument is empty too, and with
\* 'size mismatch' when it is not (SpecJoin).
C3_EmptyFirst ==
    (InJoin /\ Finished /\ Len(ArgA) < 1)
    => (/\ pc = "raised"
        /\ err = IF Len(ArgB) < 1 THEN "invalid shares" ELSE "size mismatch")

C3_Witness ==
    /\ call = "first"
    /\ pc = "raised"
    /\ ArgA = <<>>
    /\ ArgB = <<1>>
    /\ err = "size mismatch"

\* C4: join_bytes fails with 'size mismatch' exactly when its two
\* arguments differ in length (SpecJoin).
C4_SizeMismatch ==
    (InJoin /\ Finished)
    => ((pc = "raised" /\ err = "size mismatch") <=> (Len(ArgA) # Len(ArgB)))

C4_Witness ==
    /\ call = "first"
    /\ pc = "raised"
    /\ ArgA = <<0, 171>>
    /\ ArgB = <<1>>
    /\ err = "size mismatch"

\* C5: for equal-length non-empty arguments join_bytes fails with
\* 'invalid shares' exactly when the pair of first bytes is not one of
\* {0,1}, {0,2}, {1,2}; otherwise it returns len(a) - 1 bytes (SpecJoin).
C5_TagPair ==
    (InJoin /\ Finished /\ Len(ArgA) = Len(ArgB) /\ Len(ArgA) >= 1)
    => IF ValidTagPair(ArgA[1], ArgB[1])
       THEN /\ pc = "returned"
            /\ err = "none"
            /\ ret = <<"out">>
            /\ Len(heap["out"]) = Len(ArgA) - 1
       ELSE /\ pc = "raised"
            /\ err = "invalid shares"

C5_Witness ==
    /\ call = "first"
    /\ pc = "raised"
    /\ err = "invalid shares"
    /\ ArgA = <<255, 57, 156>>
    /\ ArgB = <<2, 171, 57>>

\* C6: join_bytes(b, a) has the outcome of join_bytes(a, b): the same
\* bytes when it returns, the same error when it fails (SpecJoin).
C6_OrderIndependent ==
    (call = "swapped" /\ Finished) => (Outcome = first)

C6_Witness ==
    /\ call = "swapped"
    /\ pc = "returned"
    /\ ArgA[1] = 2
    /\ ArgB[1] = 0
    /\ Len(ArgA) = 3
    /\ first.err = "none"
    /\ Outcome = first

\* C7: split_bytes returns three shares of length len(m) + 1 whose first
\* bytes are 0, 1 and 2 in that order (Spec).
C7_ShareStructure ==
    (pc = "caller" /\ call = "split")
    => (/\ ret = <<"s0", "s1", "s2">>
        /\ \A k \in 1..3 :
              /\ Len(heap[ret[k]]) = Len(heap["m"]) + 1
              /\ heap[ret[k]][1] = k - 1)

C7_Witness ==
    /\ pc = "caller"
    /\ call = "split"
    /\ Len(heap["m"]) = 1
    /\ heap["s2"][1] = 2
    /\ Len(heap["s2"]) = 2

\* C8: join_bytes reads a payload byte or writes an output byte only once
\* the lengths, the non-emptiness and the tag pair have been validated; when
\* it fails nothing has been written or returned, and when it returns all
\* len(a) - 1 output bytes have been written (SpecJoin).
C8_EagerValidation ==
    InJoin =>
       /\ (reads > 0 \/ writes > 0)
             => (/\ Len(ArgA) = Len(ArgB)
                 /\ Len(ArgA) >= 1
                 /\ ValidTagPair(ArgA[1], ArgB[1])
                 /\ err = "none"
                 /\ pc \in {"join_loop", "returned"})
       /\ (pc = "raised") => (writes = 0 /\ reads = 0 /\ ret = <<>>)
       /\ (pc = "returned") => (writes = Len(ArgA) - 1 /\ ret = <<"out">>)

C8_Witness ==
    /\ call = "first"
    /\ pc = "returned"
    /\ writes = 2
    /\ reads = 4

\* C9: neither argument of join_bytes is changed by the call, whether it
\* returns or fails, and split_bytes leaves its secret unchanged (Spec).
C9_InputsUnchanged ==
    \A k \in 1..Len(args) : heap[args[k]] = saved[args[k]]

C9_Witness ==
    /\ call = "first"
    /\ pc = "returned"
    /\ args = <<"s2", "s0">>
    /\ la = "s0"
    /\ lb = "s2"
    /\ Len(heap["m"]) = 2
    /\ heap["s2"] = saved["s2"]

\* C10: after one payload byte of a valid pair is replaced by a different
\* value join_bytes still returns, output byte i differs from before and
\* every other output byte is the same; the recovery formula of the pair is
\* a bijection on 0..255 (SpecJoin).
C10_LocalCorruption ==
    (call = "tampered" /\ Finished)
    => (/\ pc = "returned"
        /\ err = "none"
        /\ Len(heap["out"]) = Len(first.val)
        /\ \A k \in 1..Len(heap["out"]) :
              (heap["out"][k] = first.val[k]) <=> (k # tamper)
        /\ {JoinByte(kind, c) : c \in Byte} = Byte)

C10_Witness ==
    /\ call = "tampered"
    /\ pc = "returned"
    /\ tamper = 1
    /\ kind = "02"
    /\ Len(heap["out"]) = 2
    /\ heap["out"][1] # first.val[1]
    /\ heap["out"][2] = first.val[2]

====
